---- MODULE Spec2Model ----
(***************************************************************************)
(* Model of the multi-repository analysis scheduler of                     *)
(* services/analysis_service.py (AnalysisService) together with the        *)
(* adapter services/base_analyzer.py (BaseAnalyzer.analyze_directory).     *)
(*                                                                         *)
(* One behaviour is one organization run: run_analysis ->                  *)
(* _analyze_organization -> _parallel_repo_analysis (one asyncio task per  *)
(* repo item, gated by asyncio.Semaphore) -> cleanup -> aggregate.         *)
(* asyncio is cooperative: a task runs without interruption between two    *)
(* awaits, so every action below is the code between two suspension        *)
(* points.  The external engine (java -jar) is a separate OS process and   *)
(* runs concurrently with everything.                                      *)
(***************************************************************************)
EXTENDS Integers, Sequences, FiniteSets, TLC

\* ------------------------------------------------------------------ bounds
MaxN == 3          \* largest number of repo items discovered in a run
MaxC == 3          \* largest configured max_concurrent_repos

\* ------------------------------------------------------------- value sets
None == [none |-> TRUE]                 \* Python None
NoFile == [shape |-> "absent"]          \* the output artifact does not exist
Versions == {"17", "21"}               \* to_version inputs tried
Shapes == {"list", "dict"}             \* JSON shapes the engine may emit
scope == "all-deprecations"            \* run_analysis default scope

VARIABLES
    pc,                    \* position of run_analysis/_analyze_organization
    max_concurrent_repos,  \* self.max_concurrent_repos
    is_local,              \* _analyze_organization: is_local
    keep_clones,           \* run_analysis argument
    to_version,            \* run_analysis argument
    st,                    \* position of each analyze_single_item task
    calls,                 \* analyze_directory invocations per item
    sem_value,             \* semaphore._value
    waiters,               \* semaphore._waiters (FIFO of blocked tasks)
    output_file,           \* content of oss/outputs/<output_file>
    results,               \* what each task returned to asyncio.gather
    err_log,               \* logger.error records of line 301, per item
    analysis_results,      \* list returned by _parallel_repo_analysis
    cleanup_calls,         \* arguments of the cleanup_cloned_repositories calls
    result,                \* dict returned by _analyze_organization
    mode,                  \* run_analysis: repo_path given, or org_name
    repo_items,            \* repo_items of the run (repository ids)
    clone_results,         \* what clone_organization_repositories returned
    disc,                  \* inputs and outputs of discovery calls
    progress_callback,     \* run_analysis argument: absent, or how it behaves
    progress_log           \* messages progress_callback was invoked with

vars == <<pc, max_concurrent_repos, is_local, keep_clones, to_version, st,
          calls, sem_value, waiters, output_file, results, err_log,
          analysis_results, cleanup_calls, result, mode, repo_items,
          clone_results, disc, progress_callback, progress_log>>

\* variables of the run that discovery alone leaves untouched
runVars == <<mode, repo_items, clone_results, progress_callback>>

NoResult == [type |-> "none"]           \* _analyze_organization has not returned
Pending == [pending |-> TRUE]           \* the task has not returned yet
NoDisc == [phase |-> "none"]            \* no discovery call under study

\* repo items of the run, in input order
Items == DOMAIN st

\* -------------------------------------------------------- pure functions

\* What the external engine reports for the directory of repository i: an
\* ordered list of opaque findings.  Repository 1 has none, every other
\* repository has its own.
EngineFindings(i) == [k \in 1..(i - 1) |-> <<i, k>>]

\* base_analyzer.py:78 and :104, the artifact an adapter call writes, reads
\* and deletes.  It is named by target_jdk and scope only.
OutputPath(i, version, sc) == <<"oss/outputs", "temp_analysis", version, sc>>

\* Python truthiness of the raw result (analysis_service.py:208)
Truthy(raw) == raw # None /\ (raw.shape = "dict" \/ raw.findings # <<>>)

\* base_analyzer.py:102-117, the value analyze_directory returns once the
\* subprocess has exited with code `exit` and the artifact holds `file`
AnalyzeDirectoryResult(exit, file) ==
    IF exit = "exited_ok" /\ file # NoFile THEN file ELSE None

\* base_analyzer.py:108, the artifact after analyze_directory returned
FileAfterRead(exit, file) ==
    IF exit = "exited_ok" /\ file # NoFile THEN NoFile ELSE file

\* an outcome that counts the keys of the raw result instead of its findings
BaseRepoAnalyzer_CountsKeys(i, raw) ==
    IF ~Truthy(raw) THEN None
    ELSE [repository |-> i,
          findings |-> raw.findings,
          total_issues |-> IF raw.shape = "dict" THEN 2 ELSE Len(raw.findings)]

\* analysis_service.py:208-224 inside the try of :286-302: the outcome of
\* one item, None when _base_repo_analyzer raised and the handler caught it
BaseRepoAnalyzer(i, raw) ==
    IF ~Truthy(raw) THEN None
    ELSE [repository |-> i,
          findings |-> raw.findings,
          total_issues |-> Len(raw.findings)]

\* a semaphore that never blocks
SemLocked_NeverBlocks(v, w) == FALSE

\* asyncio.Semaphore.locked(), consulted by `async with semaphore` (:285)
SemLocked(v, w) == v <= 0 \/ w # <<>>

\* a filter that zero-fills the failed items
RECURSIVE FilterSuccessful_ZeroFill(_)
FilterSuccessful_ZeroFill(rs) ==
    IF rs = <<>> THEN <<>>
    ELSE <<IF Head(rs) # None THEN Head(rs)
           ELSE [repository |-> 0, findings |-> <<>>, total_issues |-> 0]>>
         \o FilterSuccessful_ZeroFill(Tail(rs))

\* a filter that stops at the first failed item
RECURSIVE FilterSuccessful_StopsAtFailure(_)
FilterSuccessful_StopsAtFailure(rs) ==
    IF rs = <<>> \/ Head(rs) = None THEN <<>>
    ELSE <<Head(rs)>> \o FilterSuccessful_StopsAtFailure(Tail(rs))

\* a filter that returns the latest item first
RECURSIVE FilterSuccessful_NewestFirst(_)
FilterSuccessful_NewestFirst(rs) ==
    IF rs = <<>> THEN <<>>
    ELSE FilterSuccessful_NewestFirst(Tail(rs))
         \o (IF Head(rs) # None THEN <<Head(rs)>> ELSE <<>>)

\* analysis_service.py:308-316, keep the truthy results in input order
RECURSIVE FilterSuccessful(_)
FilterSuccessful(rs) ==
    IF rs = <<>> THEN <<>>
    ELSE IF Head(rs) # None THEN <<Head(rs)>> \o FilterSuccessful(Tail(rs))
    ELSE FilterSuccessful(Tail(rs))

\* a total that counts outcomes instead of findings
SumFindings_CountsRepos(rs) == Len(rs)

\* analysis_service.py:177
RECURSIVE SumFindings(_)
SumFindings(rs) ==
    IF rs = <<>> THEN 0 ELSE Len(Head(rs).findings) + SumFindings(Tail(rs))

\* ------------------------------------------------------ progress callback

\* the callbacks tried: none given (the default of :42), one that returns,
\* one that may raise an Exception at any invocation
Callbacks == {"none", "returns", "raises"}

\* an invocation of progress_callback: the kind of message, the
\* repository name or the count it mentions, and whether the call raised
Msg(kind, about) == [msg |-> kind, about |-> about, raised |-> FALSE]

\* `if progress_callback: progress_callback(...)` for a run of messages:
\* the invocation that raises, 0 when none does
RaisePoints(cb, n) == IF cb = "raises" THEN 0..n ELSE {0}

\* the invocation r of the run msgs raised
Raised(msgs, r) == r \in 1..Len(msgs)

\* the invocations made: nothing follows the one that raised
Delivered(msgs, r) ==
    IF Raised(msgs, r)
    THEN Append(SubSeq(msgs, 1, r - 1), [msgs[r] EXCEPT !.raised = TRUE])
    ELSE msgs

\* the log after the invocations, none without a callback
Emit(cb, log, msgs) == IF cb = "none" THEN log ELSE log \o msgs

\* an exception that escapes run_analysis
Caught_Reraised == "raised"

\* analysis_service.py:63-65, `except Exception` logs and returns None
Caught == "failed"

\* analysis_service.py:54, `elif org_name:`
OrgPath(m) == m = "org"

\* ------------------------------------------------------------- discovery

\* <<1, ..., m>>
Ident(m) == [k \in 1..m |-> k]

\* a scan that stops one entry early
ScanStops_Early(n, max) == n >= max - 1

\* analysis_service.py:235, the scan stops once repo_dirs holds n entries
ScanStops(n, max) == n >= max

\* analysis_service.py:229-236, the loop over org_path.iterdir(): `listing`
\* is what is left of the iteration, `qualifies` the visible directories
\* holding a .java file, `acc` is repo_dirs
RECURSIVE ScanChildren(_, _, _, _)
ScanChildren(listing, qualifies, max, acc) ==
    IF listing = <<>> THEN acc
    ELSE IF Head(listing) \notin qualifies
         THEN ScanChildren(Tail(listing), qualifies, max, acc)
    ELSE IF ScanStops(Len(acc) + 1, max) THEN Append(acc, Head(listing))
    ELSE ScanChildren(Tail(listing), qualifies, max, Append(acc, Head(listing)))

\* analysis_service.py:226-237
DiscoverLocalRepos(listing, qualifies, max) ==
    ScanChildren(listing, qualifies, max, <<>>)

\* scm_service.filter_java_repos (:256)
FilterJavaRepos(all_repos, java) ==
    SelectSeq(all_repos, LAMBDA r : r \in java)

\* the slice [:max_repos] of :256, for max_repos >= 0
CapRepos(repos, max) ==
    SubSeq(repos, 1, IF Len(repos) < max THEN Len(repos) ELSE max)

\* analysis_service.py:255-256
RemoteJavaRepos(all_repos, java, max) ==
    CapRepos(FilterJavaRepos(all_repos, java), max)

\* clone_organization_repositories (:264): one record per repository, with
\* a success flag; `ok` are the repositories whose clone works
CloneOrganizationRepositories(java_repos, ok) ==
    [k \in 1..Len(java_repos) |->
        [repo |-> java_repos[k], success |-> java_repos[k] \in ok]]

\* the clone records returned unfiltered
CloneSuccesses_All(cr) == cr

\* analysis_service.py:268
CloneSuccesses(cr) == SelectSeq(cr, LAMBDA c : c.success)

\* the repositories of a list of clone records
RepoIds(cr) == [k \in 1..Len(cr) |-> cr[k].repo]

\* a check that lets an empty batch through
NoRepos_Never(items) == FALSE

\* analysis_service.py:161, `not repo_items`
NoRepos(items) == items = <<>>

\* ------------------------------------------------------------------ Init
InitRun(callbacks, modes) ==
    /\ pc = "init"
    /\ max_concurrent_repos \in 1..MaxC
    /\ is_local \in BOOLEAN
    /\ keep_clones \in BOOLEAN
    /\ to_version \in Versions
    /\ st = <<>>
    /\ calls = <<>>
    /\ sem_value = 0
    /\ waiters = <<>>
    /\ output_file = NoFile
    /\ results = <<>>
    /\ err_log = <<>>
    /\ analysis_results = <<>>
    /\ cleanup_calls = <<>>
    /\ result = NoResult
    /\ mode \in modes
    /\ repo_items = <<>>
    /\ clone_results = <<>>
    /\ disc = NoDisc
    /\ progress_callback \in callbacks
    /\ progress_log = <<>>

\* the targets given to run_analysis: repo_path, org_name, both, neither
Modes == {"single", "org", "both", "none"}

\* a run without progress callback
Init == InitRun({"none"}, Modes)

\* --------------------------------------------------------------- actions

\* _analyze_organization:161-170 and _parallel_repo_analysis:282-306 for the
\* discovered `items`: with none the run raises (run_analysis returns
\* None), as it does when the batch-start notification of :165 raised;
\* otherwise the semaphore is created and one task per item is handed to
\* asyncio.gather.
Schedule(items, raised) ==
    /\ repo_items' = items
    /\ IF NoRepos(items) \/ raised
       THEN /\ pc' = Caught
            /\ UNCHANGED <<st, calls, results, err_log, sem_value, waiters>>
       ELSE /\ pc' = "gather"
            /\ st' = [i \in 1..Len(items) |-> "new"]
            /\ calls' = [i \in 1..Len(items) |-> 0]
            /\ results' = [i \in 1..Len(items) |-> Pending]
            /\ err_log' = [i \in 1..Len(items) |-> 0]
            /\ sem_value' = max_concurrent_repos
            /\ waiters' = <<>>

\* the messages of a local organization run up to the gather (:138, :165)
BatchMsgs(found) ==
    IF NoRepos(found) THEN <<Msg("discovering", 0)>>
    ELSE <<Msg("discovering", 0), Msg("starting", Len(found))>>

\* the messages of a remote organization run up to the gather (:147, :261,
\* :165)
RemoteBatchMsgs(listed, java_repos, found) ==
    IF ~listed THEN <<Msg("discovering", 0)>>
    ELSE IF NoRepos(found)
         THEN <<Msg("discovering", 0), Msg("cloning", Len(java_repos))>>
    ELSE <<Msg("discovering", 0), Msg("cloning", Len(java_repos)),
           Msg("starting", Len(found))>>

\* _analyze_organization:135-142, :161-170 on a local directory whose
\* children are iterated as `listing`; invocation r of the callback raises
DiscoverLocal(listing, qualifies, max, r) ==
    /\ pc = "init" /\ OrgPath(mode) /\ is_local
    /\ r \in RaisePoints(progress_callback, 2)
    /\ LET found == DiscoverLocalRepos(listing, qualifies, max)
           msgs == BatchMsgs(found)
       IN  /\ progress_log' =
                 Emit(progress_callback, progress_log, Delivered(msgs, r))
           /\ IF r = 1
              THEN /\ pc' = Caught
                   /\ UNCHANGED <<st, calls, results, err_log, sem_value,
                                  waiters, repo_items>>
              ELSE Schedule(found, Raised(msgs, r))
    /\ UNCHANGED <<max_concurrent_repos, is_local, keep_clones, to_version,
                   output_file, analysis_results, cleanup_calls, result,
                   mode, clone_results, disc, progress_callback>>

\* _analyze_organization:144-170 with _discover_and_clone_remote_repos
\* (:250-268): listing (or its error), filter and cap, clone, keep the
\* successful clones; invocation r of the callback raises
DiscoverRemote(error, all_repos, java, max, ok, r) ==
    /\ pc = "init" /\ OrgPath(mode) /\ ~is_local
    /\ r \in RaisePoints(progress_callback, 3)
    /\ LET java_repos == RemoteJavaRepos(all_repos, java, max)
           listed == ~error /\ all_repos # <<>> /\ java_repos # <<>>
           cr == CloneOrganizationRepositories(java_repos, ok)
           found == RepoIds(CloneSuccesses(cr))
           msgs == RemoteBatchMsgs(listed, java_repos, found)
       IN  /\ progress_log' =
                 Emit(progress_callback, progress_log, Delivered(msgs, r))
           /\ IF r = 1 \/ ~listed \/ r = 2
              THEN /\ pc' = Caught
                   /\ UNCHANGED <<st, calls, results, err_log, sem_value,
                                  waiters, repo_items, clone_results>>
              ELSE /\ clone_results' = cr
                   /\ Schedule(found, Raised(msgs, r))
    /\ UNCHANGED <<max_concurrent_repos, is_local, keep_clones, to_version,
                   output_file, analysis_results, cleanup_calls, result,
                   mode, disc, progress_callback>>

\* a release that is skipped when the task failed
SemValueAfterExit_LeakOnFailure(v, w, res) ==
    IF res = None \/ w # <<>> THEN v ELSE v + 1

\* asyncio.Semaphore.release() on leaving `async with` (:285), whatever the
\* task returned: with a waiter queued the permit is handed to the first
\* waiter, otherwise it goes back to the pool.
SemValueAfterExit(v, w, res) == IF w = <<>> THEN v + 1 ELSE v

\* semaphore._waiters after release(): the first waiter is woken
WaitersAfterExit(w) == IF w = <<>> THEN <<>> ELSE Tail(w)

\* a failure that cancels every sibling still pending (fail fast)
TasksAfterReturn_FailFast(s, w, i, res) ==
    [j \in DOMAIN s |->
        IF j = i \/ res = None THEN "done"
        ELSE IF w # <<>> /\ j = Head(w) THEN "granted"
        ELSE s[j]]

\* a failed task that is run again
TasksAfterReturn_RetryOnFailure(s, w, i, res) ==
    [j \in DOMAIN s |->
        IF j = i THEN (IF res = None THEN "granted" ELSE "done")
        ELSE IF w # <<>> /\ j = Head(w) THEN "granted"
        ELSE s[j]]

\* a release that drops the first waiter without waking it
TasksAfterReturn_LostWakeup(s, w, i, res) == [s EXCEPT ![i] = "done"]

\* Task positions after task i returned `res` (:285-302): task i is done,
\* the woken waiter holds the permit, every other task is left alone.
TasksAfterReturn(s, w, i, res) ==
    [j \in DOMAIN s |->
        IF j = i THEN "done"
        ELSE IF w # <<>> /\ j = Head(w) THEN "granted"
        ELSE s[j]]

\* a handler that swallows the failure without recording it
ExceptHandlerLogs_Silent(res) == 0

\* analysis_service.py:300-302, records written by the except handler
ExceptHandlerLogs(res) == IF res = None THEN 1 ELSE 0

\* analysis_service.py:200-201, "Running analysis on {repo_name}"
BeforeItemMsgs(repo) == <<Msg("running", repo)>>

\* an after-item message sent whatever the outcome
AfterItemMsgs_Always(repo, outcome) == <<Msg("complete", repo)>>

\* analysis_service.py:208-218, "Analysis complete: ... in {repo_name}",
\* reached only when the raw result was truthy
AfterItemMsgs(repo, outcome) ==
    IF outcome = None THEN <<>> ELSE <<Msg("complete", repo)>>

\* an outcome that survives the exception
TaskOutcome_KeepsOutcome(outcome, raised) == outcome

\* analysis_service.py:296-302, what the task returns: the outcome of
\* _base_repo_analyzer, None when the callback raised inside it
TaskOutcome(outcome, raised) == IF raised THEN None ELSE outcome

\* analysis_service.py:285-302 when the before-item callback raised: the
\* handler logs and returns None and `async with` releases the permit; v
\* is semaphore._value with the permit of task i taken
TaskFails(i, v) ==
    /\ results' = [results EXCEPT ![i] = None]
    /\ err_log' = [err_log EXCEPT ![i] = @ + ExceptHandlerLogs(None)]
    /\ sem_value' = SemValueAfterExit(v, waiters, None)
    /\ waiters' = WaitersAfterExit(waiters)
    /\ st' = TasksAfterReturn(st, waiters, i, None)
    /\ UNCHANGED calls

\* First step of task i (tasks start in creation order): `async with
\* semaphore` takes a permit at once, _base_repo_analyzer announces the
\* item (:200-201) and the task runs up to the await of the subprocess
\* inside analyze_directory; when the callback raises the task ends there.
StartAcquire(i) ==
    /\ pc = "gather"
    /\ i \in Items /\ st[i] = "new"
    /\ \A j \in Items : j < i => st[j] # "new"
    /\ ~SemLocked(sem_value, waiters)
    /\ \E r \in RaisePoints(progress_callback, 1) :
          LET msgs == BeforeItemMsgs(repo_items[i])
          IN  /\ progress_log' =
                    Emit(progress_callback, progress_log, Delivered(msgs, r))
              /\ IF Raised(msgs, r)
                 THEN TaskFails(i, sem_value - 1)
                 ELSE /\ sem_value' = sem_value - 1
                      /\ st' = [st EXCEPT ![i] = "running"]
                      /\ calls' = [calls EXCEPT ![i] = @ + 1]
                      /\ UNCHANGED <<waiters, results, err_log>>
    /\ UNCHANGED <<pc, max_concurrent_repos, is_local, keep_clones,
                   to_version, output_file, analysis_results, cleanup_calls,
                   result>>
    /\ UNCHANGED <<runVars, disc>>

\* ... or the semaphore is locked and the task queues up.
StartWait(i) ==
    /\ pc = "gather"
    /\ i \in Items /\ st[i] = "new"
    /\ \A j \in Items : j < i => st[j] # "new"
    /\ SemLocked(sem_value, waiters)
    /\ waiters' = Append(waiters, i)
    /\ st' = [st EXCEPT ![i] = "waiting"]
    /\ UNCHANGED <<pc, max_concurrent_repos, is_local, keep_clones,
                   to_version, calls, sem_value, output_file, results,
                   err_log, analysis_results, cleanup_calls, result>>
    /\ UNCHANGED <<runVars, disc, progress_log>>

\* A task that was handed a permit resumes and runs :286-298, announcing
\* the item (:200-201), up to the await of the subprocess.
Resume(i) ==
    /\ pc = "gather"
    /\ i \in Items /\ st[i] = "granted"
    /\ \E r \in RaisePoints(progress_callback, 1) :
          LET msgs == BeforeItemMsgs(repo_items[i])
          IN  /\ progress_log' =
                    Emit(progress_callback, progress_log, Delivered(msgs, r))
              /\ IF Raised(msgs, r)
                 THEN TaskFails(i, sem_value)
                 ELSE /\ st' = [st EXCEPT ![i] = "running"]
                      /\ calls' = [calls EXCEPT ![i] = @ + 1]
                      /\ UNCHANGED <<sem_value, waiters, results, err_log>>
    /\ UNCHANGED <<pc, max_concurrent_repos, is_local, keep_clones,
                   to_version, output_file, analysis_results, cleanup_calls,
                   result>>
    /\ UNCHANGED <<runVars, disc>>

\* The engine of item i writes its artifact and exits with code 0.
EngineExitOk(i, shape) ==
    /\ pc \in {"gather", "single"}
    /\ i \in Items /\ st[i] = "running"
    /\ output_file' = [shape |-> shape, findings |-> EngineFindings(repo_items[i])]
    /\ st' = [st EXCEPT ![i] = "exited_ok"]
    /\ UNCHANGED <<pc, max_concurrent_repos, is_local, keep_clones,
                   to_version, calls, sem_value, waiters, results, err_log,
                   analysis_results, cleanup_calls, result>>
    /\ UNCHANGED <<runVars, disc, progress_log>>

\* The engine of item i exits with a non-zero code.
EngineExitErr(i) ==
    /\ pc \in {"gather", "single"}
    /\ i \in Items /\ st[i] = "running"
    /\ st' = [st EXCEPT ![i] = "exited_err"]
    /\ UNCHANGED <<pc, max_concurrent_repos, is_local, keep_clones,
                   to_version, calls, sem_value, waiters, output_file,
                   results, err_log, analysis_results, cleanup_calls, result>>
    /\ UNCHANGED <<runVars, disc, progress_log>>

\* a join that resumes on the first completed task
GatherDone_FirstCompleted(s) == \E i \in DOMAIN s : s[i] = "done"

\* asyncio.gather(*tasks, return_exceptions=True) (:306) resumes its caller
\* when every task is done
GatherDone(s) == \A i \in DOMAIN s : s[i] = "done"

\* a guard that always asks for cleanup
NeedsCleanup_Always(local, keep) == TRUE

\* a guard that never asks for cleanup
NeedsCleanup_Never(local, keep) == FALSE

\* analysis_service.py:173
NeedsCleanup(local, keep) == ~local /\ ~keep

\* a clone-path list filled in whatever the retention
CleanupPaths_Always(local, keep, items) == [none |-> FALSE, paths |-> items]

\* analysis_service.py:142, :155-159
CleanupPaths(local, keep, items) ==
    IF ~local /\ keep THEN [none |-> FALSE, paths |-> items] ELSE None

\* Task i resumes after process.communicate() (base_analyzer.py:100): it
\* reads and deletes the artifact (:102-117), normalises or fails
\* (analysis_service.py:208-215), announces the outcome (:217-218), the
\* handler records a failure (:300-302), and `async with` releases the
\* permit.  No await in between.  The event loop runs the first step of
\* every task gather created (:305-306) before it delivers any subprocess
\* completion.
AdapterReturn(i) ==
    /\ pc = "gather"
    /\ i \in Items /\ st[i] \in {"exited_ok", "exited_err"}
    /\ \A j \in Items : st[j] # "new"
    /\ \E r \in RaisePoints(progress_callback, 1) :
          LET raw == AnalyzeDirectoryResult(st[i], output_file)
              outcome == BaseRepoAnalyzer(repo_items[i], raw)
              msgs == AfterItemMsgs(repo_items[i], outcome)
              res == TaskOutcome(outcome, Raised(msgs, r))
          IN  /\ output_file' = FileAfterRead(st[i], output_file)
              /\ progress_log' =
                    Emit(progress_callback, progress_log, Delivered(msgs, r))
              /\ results' = [results EXCEPT ![i] = res]
              /\ err_log' = [err_log EXCEPT ![i] = @ + ExceptHandlerLogs(res)]
              /\ sem_value' = SemValueAfterExit(sem_value, waiters, res)
              /\ waiters' = WaitersAfterExit(waiters)
              /\ st' = TasksAfterReturn(st, waiters, i, res)
    /\ UNCHANGED <<pc, max_concurrent_repos, is_local, keep_clones,
                   to_version, calls, analysis_results, cleanup_calls, result>>
    /\ UNCHANGED <<runVars, disc>>

\* asyncio.gather resumes _parallel_repo_analysis, which filters the
\* results (:306-316) and returns to _analyze_organization (:168).
GatherReturn ==
    /\ pc = "gather"
    /\ GatherDone(st)
    /\ analysis_results' = FilterSuccessful(results)
    /\ pc' = "analyzed"
    /\ UNCHANGED <<max_concurrent_repos, is_local, keep_clones, to_version,
                   st, calls, sem_value, waiters, output_file, results,
                   err_log, cleanup_calls, result>>
    /\ UNCHANGED <<runVars, disc, progress_log>>

\* analysis_service.py:173-174, :318-320: cleanup is awaited
CleanupStart ==
    /\ pc = "analyzed"
    /\ NeedsCleanup(is_local, keep_clones)
    /\ cleanup_calls' = Append(cleanup_calls, repo_items)
    /\ pc' = "cleanup"
    /\ UNCHANGED <<max_concurrent_repos, is_local, keep_clones, to_version,
                   st, calls, sem_value, waiters, output_file, results,
                   err_log, analysis_results, result>>
    /\ UNCHANGED <<runVars, disc, progress_log>>

\* analysis_service.py:173, the branch not taken
CleanupSkip ==
    /\ pc = "analyzed"
    /\ ~NeedsCleanup(is_local, keep_clones)
    /\ pc' = "aggregate"
    /\ UNCHANGED <<max_concurrent_repos, is_local, keep_clones, to_version,
                   st, calls, sem_value, waiters, output_file, results,
                   err_log, analysis_results, cleanup_calls, result>>
    /\ UNCHANGED <<runVars, disc, progress_log>>

\* cleanup_cloned_repositories returns
CleanupDone ==
    /\ pc = "cleanup"
    /\ pc' = "aggregate"
    /\ UNCHANGED <<max_concurrent_repos, is_local, keep_clones, to_version,
                   st, calls, sem_value, waiters, output_file, results,
                   err_log, analysis_results, cleanup_calls, result>>
    /\ UNCHANGED <<runVars, disc, progress_log>>

\* analysis_service.py:176-186
Aggregate ==
    /\ pc = "aggregate"
    /\ result' = [type |-> "organization",
                  repositories |-> analysis_results,
                  total_issues |-> SumFindings(analysis_results),
                  repos_analyzed |-> Len(analysis_results),
                  cleanup_paths |-> CleanupPaths(is_local, keep_clones, repo_items)]
    /\ pc' = "returned"
    /\ UNCHANGED <<max_concurrent_repos, is_local, keep_clones, to_version,
                   st, calls, sem_value, waiters, output_file, results,
                   err_log, analysis_results, cleanup_calls>>
    /\ UNCHANGED <<runVars, disc, progress_log>>

\* analysis_service.py:110-116, the metadata added to the one outcome
SingleResult(res, local) ==
    [type |-> "single_repo",
     repository |-> res.repository,
     findings |-> res.findings,
     total_issues |-> res.total_issues,
     repos_analyzed |-> 1,
     cleanup_path |-> IF local THEN None
                      ELSE [none |-> FALSE, paths |-> <<res.repository>>]]

\* the messages of a single-repository run up to the adapter call (:87 or
\* :91 and :102, then :201)
SingleMsgs(repo, local, clone_ok) ==
    IF local THEN <<Msg("analyzing_local", repo), Msg("running", repo)>>
    ELSE IF ~clone_ok THEN <<Msg("cloning_remote", 0)>>
    ELSE <<Msg("cloning_remote", 0), Msg("analyzing_cloned", repo),
           Msg("running", repo)>>

\* analysis_service.py:49, `if repo_path:` is tested first
SinglePath(m) == m \in {"single", "both"}

\* _analyze_single_repo:77-107 for repository `repo`: a remote one is
\* cloned first and a failed clone raises (:93-95); then
\* _base_repo_analyzer runs up to the await of the subprocess.  No
\* semaphore is involved.  Invocation r of the callback raises.
SingleStart(repo, clone_ok, r) ==
    /\ pc = "init" /\ SinglePath(mode)
    /\ r \in RaisePoints(progress_callback, 3)
    /\ LET msgs == SingleMsgs(repo, is_local, clone_ok)
       IN  /\ progress_log' =
                 Emit(progress_callback, progress_log, Delivered(msgs, r))
           /\ IF (~is_local /\ ~clone_ok) \/ Raised(msgs, r)
              THEN /\ pc' = Caught
                   /\ UNCHANGED <<repo_items, st, calls, results, err_log>>
              ELSE /\ pc' = "single"
                   /\ repo_items' = <<repo>>
                   /\ st' = <<"running">>
                   /\ calls' = <<1>>
                   /\ results' = <<Pending>>
                   /\ err_log' = <<0>>
    /\ UNCHANGED <<max_concurrent_repos, is_local, keep_clones, to_version,
                   sem_value, waiters, output_file, analysis_results,
                   cleanup_calls, result, mode, clone_results, disc,
                   progress_callback>>

\* The single analysis resumes after process.communicate(): it reads and
\* deletes the artifact (base_analyzer.py:102-117); _base_repo_analyzer
\* raises on a falsy result (:208-209) or in the callback of :218, which
\* run_analysis turns into None (:63-65), or the outcome is tagged and
\* returned (:110-116).
SingleReturn ==
    /\ pc = "single"
    /\ st[1] \in {"exited_ok", "exited_err"}
    /\ \E r \in RaisePoints(progress_callback, 1) :
          LET raw == AnalyzeDirectoryResult(st[1], output_file)
              outcome == BaseRepoAnalyzer(repo_items[1], raw)
              msgs == AfterItemMsgs(repo_items[1], outcome)
              res == TaskOutcome(outcome, Raised(msgs, r))
          IN  /\ output_file' = FileAfterRead(st[1], output_file)
              /\ progress_log' =
                    Emit(progress_callback, progress_log, Delivered(msgs, r))
              /\ results' = <<res>>
              /\ st' = <<"done">>
              /\ IF res = None
                 THEN pc' = Caught /\ UNCHANGED result
                 ELSE pc' = "returned" /\ result' = SingleResult(res, is_local)
    /\ UNCHANGED <<max_concurrent_repos, is_local, keep_clones, to_version,
                   calls, sem_value, waiters, err_log, analysis_results,
                   cleanup_calls, mode, repo_items, clone_results, disc,
                   progress_callback>>

\* run_analysis:60-65 with neither repo_path nor org_name: the ValueError
\* is caught and None returned
NoTarget ==
    /\ pc = "init" /\ mode = "none"
    /\ pc' = Caught
    /\ UNCHANGED <<max_concurrent_repos, is_local, keep_clones, to_version,
                   st, calls, sem_value, waiters, output_file, results,
                   err_log, analysis_results, cleanup_calls, result>>
    /\ UNCHANGED <<runVars, disc, progress_log>>

\* cleanup_cloned_repositories raises (:174, :320): the exception leaves
\* _analyze_organization before the aggregate and run_analysis returns None
CleanupRaises ==
    /\ pc = "cleanup"
    /\ pc' = Caught
    /\ UNCHANGED <<max_concurrent_repos, is_local, keep_clones, to_version,
                   st, calls, sem_value, waiters, output_file, results,
                   err_log, analysis_results, cleanup_calls, result>>
    /\ UNCHANGED <<runVars, disc, progress_log>>

Next ==
    \/ \E m \in 0..MaxN, max \in 0..MaxN, r \in 0..2 :
          DiscoverLocal(Ident(m), 1..m, max, r)
    \/ \E error \in BOOLEAN, m \in 0..MaxN, max \in 0..MaxN,
          ok \in SUBSET (1..MaxN), r \in 0..3 :
          DiscoverRemote(error, Ident(m), 1..m, max, ok, r)
    \/ \E i \in 1..MaxN : StartAcquire(i)
    \/ \E i \in 1..MaxN : StartWait(i)
    \/ \E i \in 1..MaxN : Resume(i)
    \/ \E i \in 1..MaxN, shape \in Shapes : EngineExitOk(i, shape)
    \/ \E i \in 1..MaxN : EngineExitErr(i)
    \/ \E i \in 1..MaxN : AdapterReturn(i)
    \/ GatherReturn
    \/ CleanupStart
    \/ CleanupSkip
    \/ CleanupDone
    \/ Aggregate
    \/ \E repo \in 1..MaxN, clone_ok \in BOOLEAN, r \in 0..3 :
          SingleStart(repo, clone_ok, r)
    \/ SingleReturn
    \/ NoTarget

Spec == Init /\ [][Next]_vars

\* the engine process of item i terminates (base_analyzer.py:94-100)
EngineExit(i) == (\E shape \in Shapes : EngineExitOk(i, shape)) \/ EngineExitErr(i)

\* The event loop runs every task that is ready, and _analyze_organization
\* runs to its end; every engine process terminates except possibly one,
\* which may run for ever (process.communicate() has no timeout).  The
\* target version plays no part in scheduling: the default of :37 is used.
FairInit ==
    /\ Init
    /\ to_version = "21"

FairSpec ==
    /\ FairInit
    /\ [][Next]_vars
    /\ WF_vars(GatherReturn \/ CleanupStart \/ CleanupSkip \/ CleanupDone
                 \/ Aggregate)
    /\ \A i \in 1..MaxN :
          /\ WF_vars(StartAcquire(i) \/ StartWait(i))
          /\ WF_vars(Resume(i))
          /\ WF_vars(AdapterReturn(i))
    /\ \E slow \in 1..MaxN :
          \A i \in (1..MaxN) \ {slow} : WF_vars(EngineExit(i))

\* ------------------------------------------- runs with raising collaborators
\* A run whose progress callback is given and either returns or may raise
\* at any invocation, and whose cleanup coordinator may raise.  Retention
\* is declined, so that every remote organization run calls the cleanup
\* coordinator.  The target version plays no part: the default of :37 is
\* used.
FaultInit ==
    /\ InitRun({"returns", "raises"}, Modes)
    /\ to_version = "21"
    /\ keep_clones = FALSE

FaultNext == Next \/ CleanupRaises

FaultSpec == FaultInit /\ [][FaultNext]_vars

\* ------------------------------------------------- discovery on its own
\* _discover_local_repos and the listing steps of
\* _discover_and_clone_remote_repos are functions of the directory (or
\* organization) content, the iteration order and max_repos.  DiscoverySpec
\* draws these and applies the functions: the local scan twice, over two
\* iteration orders of the same unchanged directory, then the remote
\* listing.

\* the elements of a sequence
Range(q) == {q[k] : k \in DOMAIN q}

\* the orders in which the members of S can be iterated
Orders(S) ==
    {o \in [1..Cardinality(S) -> S] : \A a, b \in DOMAIN o : a # b => o[a] # o[b]}

\* the inputs of discovery under study: max_repos, two iteration orders of
\* the same m children, and the children that qualify
DiscInput(x, o1, o2, q) ==
    [phase |-> "input", max_repos |-> x, order1 |-> o1, order2 |-> o2,
     qualifies |-> q, found1 |-> <<>>, found2 |-> <<>>, remote |-> <<>>]

DiscInit ==
    /\ pc = "discovery"
    /\ max_concurrent_repos = 1
    /\ is_local = TRUE
    /\ keep_clones = TRUE
    /\ to_version = "21"
    /\ st = <<>>
    /\ calls = <<>>
    /\ sem_value = 0
    /\ waiters = <<>>
    /\ output_file = NoFile
    /\ results = <<>>
    /\ err_log = <<>>
    /\ analysis_results = <<>>
    /\ cleanup_calls = <<>>
    /\ result = NoResult
    /\ mode = "org"
    /\ repo_items = <<>>
    /\ clone_results = <<>>
    /\ progress_callback = "none"
    /\ progress_log = <<>>
    /\ \E m \in 0..MaxN :
          \E x \in 0..MaxN, o1 \in Orders(1..m), o2 \in Orders(1..m),
             q \in SUBSET (1..m) :
             disc = DiscInput(x, o1, o2, q)

\* everything but disc
mainVars == <<pc, max_concurrent_repos, is_local, keep_clones, to_version,
              st, calls, sem_value, waiters, output_file, results, err_log,
              analysis_results, cleanup_calls, result, mode, repo_items,
              clone_results, progress_callback, progress_log>>

\* first run of _discover_local_repos (:226-237)
ScanFirst ==
    /\ disc.phase = "input"
    /\ disc' = [disc EXCEPT
                  !.found1 = DiscoverLocalRepos(disc.order1, disc.qualifies,
                                                disc.max_repos),
                  !.phase = "scanned1"]
    /\ UNCHANGED mainVars

\* second run over the same directory, iterated as order2
ScanSecond ==
    /\ disc.phase = "scanned1"
    /\ disc' = [disc EXCEPT
                  !.found2 = DiscoverLocalRepos(disc.order2, disc.qualifies,
                                                disc.max_repos),
                  !.phase = "scanned2"]
    /\ UNCHANGED mainVars

\* _discover_and_clone_remote_repos:255-256 on the same content listed as
\* order1
ListRemote ==
    /\ disc.phase = "scanned2"
    /\ disc' = [disc EXCEPT
                  !.remote = RemoteJavaRepos(disc.order1, disc.qualifies,
                                             disc.max_repos),
                  !.phase = "done"]
    /\ UNCHANGED mainVars

DiscNext == ScanFirst \/ ScanSecond \/ ListRemote

DiscoverySpec == DiscInit /\ [][DiscNext]_vars

\* ---------------------------------------------------------- task positions

\* the adapter call of item i (analyze_directory, :204) has started and has
\* not returned
InFlight(i) == st[i] \in {"running", "exited_ok", "exited_err"}

\* task i is inside `async with semaphore` (:285-302)
HoldsPermit(i) == st[i] \in {"granted", "running", "exited_ok", "exited_err"}

\* task i has returned to asyncio.gather
Terminal(i) == st[i] = "done"

\* the semaphore of :282 exists
Scheduled == mode = "org" /\ pc \notin {"init", "failed"}

\* permits taken from the pool created at :282
PermitsTaken == max_concurrent_repos - sem_value

\* -------------------------------------------------------------------- C1
\* C1: at any instant at most max_concurrent_repos adapter calls are in
\* flight, and the in-flight calls never outnumber the permits taken from
\* the pool (no call runs without a permit).
C1_ConcurrencyBound ==
    Scheduled =>
        /\ Cardinality({i \in Items : InFlight(i)}) <= max_concurrent_repos
        /\ Cardinality({i \in Items : InFlight(i)}) <= PermitsTaken
        /\ \A i \in Items : calls[i] > 0 => HoldsPermit(i) \/ Terminal(i)

\* the pool is exhausted by in-flight calls while another item waits
C1_Witness ==
    /\ pc = "gather"
    /\ Cardinality({i \in Items : InFlight(i)}) = max_concurrent_repos
    /\ \E i \in Items : st[i] = "waiting"

\* _parallel_repo_analysis has returned to _analyze_organization (:168)
SchedulerReturned ==
    mode = "org" /\ pc \in {"analyzed", "cleanup", "aggregate", "returned"}

\* entries of the returned list that belong to item i
SuccessesOf(i) ==
    {k \in DOMAIN analysis_results :
        analysis_results[k].repository = repo_items[i]}

\* -------------------------------------------------------------------- C2
\* C2: once the scheduler has returned, every submitted item has exactly
\* one terminal outcome: either one entry in the returned list or one
\* recorded failure, never both, never none, never two; successes plus
\* recorded failures add up to the number of submitted items.
C2_ExactlyOneOutcome ==
    SchedulerReturned =>
        /\ Len(results) = Cardinality(Items)
        /\ \A i \in Items :
              /\ results[i] # Pending
              /\ Cardinality(SuccessesOf(i)) + err_log[i] = 1
              /\ (results[i] = None <=> err_log[i] = 1)
        /\ Len(analysis_results)
             + Cardinality({i \in Items : err_log[i] > 0})
           = Cardinality(Items)

\* a returned batch with a success and a recorded failure
C2_Witness ==
    /\ pc = "analyzed"
    /\ \E i, j \in Items :
          /\ SuccessesOf(i) # {} /\ err_log[i] = 0
          /\ SuccessesOf(j) = {} /\ err_log[j] = 1

\* -------------------------------------------------------------------- C3
\* C3: no two items whose adapter calls overlap in time use the same
\* output artifact path.
C3_DisjointArtifacts ==
    \A i, j \in Items :
        (i # j /\ InFlight(i) /\ InFlight(j))
            => OutputPath(i, to_version, scope) # OutputPath(j, to_version, scope)

\* -------------------------------------------------------------------- C4
\* C4: the findings in a successful outcome of item i are exactly the list
\* the engine produced for item i's directory, in the same order.
C4_OwnFindings ==
    \A i \in Items :
        (Terminal(i) /\ results[i] # None /\ results[i] # Pending)
            => results[i].findings = EngineFindings(repo_items[i])

\* -------------------------------------------------------------------- C5
\* C5: the step in which one item's adapter call fails gives a failed
\* outcome to that item only: no sibling becomes terminal, gets a result,
\* a failure record or loses its adapter call in that step; a run that
\* scheduled items is never aborted, and by the time the scheduler returns
\* every item has run its adapter call.
C5_FailureStep ==
    \A i \in Items :
        (st[i] # "done" /\ st'[i] = "done" /\ results'[i] = None) =>
            \A j \in Items \ {i} :
                /\ results'[j] = results[j]
                /\ err_log'[j] = err_log[j]
                /\ calls'[j] = calls[j]
                /\ (st'[j] = "done" <=> st[j] = "done")

C5_FailureIsolation ==
    /\ [][C5_FailureStep]_vars
    /\ []((mode = "org" /\ pc = "failed") => Items = {})
    /\ [](SchedulerReturned => \A i \in Items : calls[i] = 1)

\* one item has failed while a sibling's adapter call is in flight and
\* another sibling has not started its call yet
C5_Witness ==
    /\ pc = "gather"
    /\ \E i, j, k \in Items :
          /\ results[i] = None
          /\ InFlight(j)
          /\ calls[k] = 0

\* -------------------------------------------------------------------- C6
\* C6: the scheduler has returned only if every submitted item is terminal:
\* none is waiting for a permit, none has its adapter call in flight.
C6_JoinBarrier ==
    SchedulerReturned =>
        /\ \A i \in Items : Terminal(i) /\ results[i] # Pending
        /\ waiters = <<>>

\* the scheduler returned from a batch in which the first item failed
C6_Witness ==
    /\ SchedulerReturned
    /\ Cardinality(Items) >= 2
    /\ results[1] = None
    /\ \A i \in Items : Terminal(i)

\* -------------------------------------------------------------------- C7
\* C7: the permits taken from the pool are exactly those of the tasks
\* between permit acquisition and completion, the pool never goes negative,
\* and when the scheduler returns all permits are free.
C7_PermitAccounting ==
    Scheduled =>
        /\ PermitsTaken = Cardinality({i \in Items : HoldsPermit(i)})
        /\ sem_value >= 0 /\ sem_value <= max_concurrent_repos
        /\ (SchedulerReturned => sem_value = max_concurrent_repos)

\* a failed and a succeeded task have both given their permit back
C7_Witness ==
    /\ pc = "gather"
    /\ sem_value = max_concurrent_repos
    /\ \E i, j \in Items :
          /\ Terminal(i) /\ results[i] = None
          /\ Terminal(j) /\ results[j] # None

\* -------------------------------------------------------------------- C8
\* item i was scheduled and its task has returned
Finished(i) == i \in Items /\ Terminal(i)

\* C8 as claimed: for every concurrency limit, of any two scheduled items
\* at least one eventually reaches a terminal state, i.e. an adapter call
\* that never completes keeps no other item from terminating.
C8_NoStallAnyLimit ==
    \A i, j \in 1..MaxN :
        (pc = "gather" /\ i < j /\ j \in Items)
            ~> (Finished(i) \/ Finished(j))

\* C8: with a concurrency limit of at least 2, of any two scheduled items
\* at least one eventually reaches a terminal state: one adapter call that
\* never completes, or one that failed, keeps no other item from acquiring
\* a permit and terminating.
C8_NoStall ==
    \A i, j \in 1..MaxN :
        (pc = "gather" /\ i < j /\ j \in Items /\ max_concurrent_repos >= 2)
            ~> (Finished(i) \/ Finished(j))

\* an item that had to wait for a permit is terminal while an earlier
\* item's engine is still running
C8_Witness ==
    /\ pc = "gather"
    /\ max_concurrent_repos >= 2
    /\ Cardinality(Items) > max_concurrent_repos
    /\ \E i, j \in Items : i < j /\ st[i] = "running" /\ Terminal(j)
    /\ Terminal(Cardinality(Items))

C10_CleanupAfterAnalysis ==
    (pc = "cleanup" \/ cleanup_calls # <<>>) =>
        /\ \A i \in Items : Terminal(i) /\ ~InFlight(i) /\ calls[i] = 1
        /\ waiters = <<>>

\* cleanup is running over a batch of several analysed items
C10_Witness ==
    /\ pc = "cleanup"
    /\ Cardinality(Items) >= 2
    /\ \A i \in Items : Terminal(i)

\* ------------------------------------------------------------------- C11
\* repositories whose clone was reported successful / failed
ClonedOk == {clone_results[k].repo :
                k \in {j \in DOMAIN clone_results : clone_results[j].success}}
CloneFailed == {clone_results[k].repo :
                k \in {j \in DOMAIN clone_results : ~clone_results[j].success}}

\* C11: every call of the cleanup coordinator receives exactly the
\* repositories whose clone succeeded, each once, and none whose clone
\* failed.
C11_CleanupTargets ==
    \A k \in DOMAIN cleanup_calls :
        /\ Range(cleanup_calls[k]) = ClonedOk
        /\ Len(cleanup_calls[k]) = Cardinality(ClonedOk)
        /\ Range(cleanup_calls[k]) \cap CloneFailed = {}

\* cleanup was called for a batch in which two clones worked and one failed
C11_Witness ==
    /\ Len(cleanup_calls) = 1
    /\ Cardinality(ClonedOk) >= 2
    /\ CloneFailed # {}

\* ------------------------------------------------------------------- C12
\* C12: a run over a local target (single repository or organization
\* directory) and a remote run with keep_clones never call the cleanup
\* coordinator.
C12_NoCleanup ==
    (is_local \/ keep_clones) => cleanup_calls = <<>> /\ pc # "cleanup"

\* a remote organization run with retention has returned, its clones
\* untouched
C12_Witness ==
    /\ mode = "org" /\ pc = "returned"
    /\ ~is_local /\ keep_clones
    /\ ClonedOk # {}
    /\ cleanup_calls = <<>>

\* ------------------------------------------------------------------- C13
\* an organization run has returned its aggregate result
OrgReturned == mode = "org" /\ pc = "returned"

\* items whose task returned an outcome / None
Succeeded == {i \in Items : results[i] # None}
Failed == {i \in Items : results[i] = None}

\* C13: repos_analyzed is the number of items whose analysis succeeded,
\* the length of the repositories list, and at most the number of
\* submitted items.
C13_ReposAnalyzed ==
    OrgReturned =>
        /\ result.repos_analyzed = Cardinality(Succeeded)
        /\ result.repos_analyzed = Len(result.repositories)
        /\ result.repos_analyzed <= Cardinality(Items)

\* a batch with a failed item reports fewer repositories than attempted
C13_Witness ==
    /\ OrgReturned
    /\ Failed # {}
    /\ result.repos_analyzed >= 1
    /\ result.repos_analyzed < Cardinality(Items)

\* ------------------------------------------------------------------- C14
\* sum of the total_issues of the outcomes of the items in S
RECURSIVE SumIssues(_)
SumIssues(S) ==
    IF S = {} THEN 0
    ELSE LET i == CHOOSE x \in S : TRUE
         IN  results[i].total_issues + SumIssues(S \ {i})

\* C14: total_issues is the sum of the finding counts of the successful
\* outcomes; failed items add nothing.
C14_TotalIssues ==
    OrgReturned => result.total_issues = SumIssues(Succeeded)

\* findings were counted in a batch that has a success with findings and a
\* failed item
C14_Witness ==
    /\ OrgReturned
    /\ Failed # {}
    /\ Cardinality(Succeeded) >= 2
    /\ result.total_issues >= 2

\* ------------------------------------------------------------------- C15
\* C15: an organization run that scheduled N >= 1 items never fails as a
\* whole; with k failed items its result is of kind organization, has
\* repos_analyzed = N - k and a list of N - k outcomes, those of exactly the
\* items that did not fail.
C15_PartialFailure ==
    /\ (mode = "org" /\ pc = "failed") => st = <<>>
    /\ OrgReturned =>
          /\ Cardinality(Items) >= 1
          /\ result.type = "organization"
          /\ result.repos_analyzed = Cardinality(Items) - Cardinality(Failed)
          /\ Len(result.repositories) = Cardinality(Items) - Cardinality(Failed)
          /\ {result.repositories[k].repository :
                 k \in DOMAIN result.repositories}
             = {repo_items[i] : i \in Succeeded}

\* every item of a batch of several failed and the run returned a result
C15_Witness ==
    /\ OrgReturned
    /\ Cardinality(Items) >= 2
    /\ Failed = Items
    /\ result.repos_analyzed = 0

\* ------------------------------------------------------------------- C16
\* C16: an organization run whose discovery yields no repo item fails as a
\* whole and schedules nothing: no task, no adapter call, no semaphore, no
\* result.
C16_EmptyDiscoveryFails ==
    (mode = "org" /\ pc # "init" /\ repo_items = <<>>) =>
        /\ pc = "failed"
        /\ st = <<>> /\ calls = <<>>
        /\ sem_value = 0 /\ waiters = <<>>
        /\ output_file = NoFile
        /\ result = NoResult

\* a local organization directory without qualifying child made the run
\* fail
C16_Witness ==
    /\ mode = "org" /\ is_local
    /\ pc = "failed"
    /\ repo_items = <<>>

\* ------------------------------------------------------------------- C17
\* C17: discovery never yields more than max_repos items, in local and in
\* remote mode, for every max_repos >= 0.
C17_DiscoveryCapped ==
    /\ disc.phase \in {"scanned1", "scanned2", "done"}
          => Len(disc.found1) <= disc.max_repos
    /\ disc.phase \in {"scanned2", "done"}
          => Len(disc.found2) <= disc.max_repos
    /\ disc.phase = "done"
          => Len(disc.remote) <= disc.max_repos

\* ------------------------------------------------------------------- C18
\* C18 as claimed, for max_repos >= 1: two local scans of the same
\* directory with the same max_repos return the same set of items, whatever
\* the two iteration orders.
C18_SameSetAnyOrder ==
    (disc.phase \in {"scanned2", "done"} /\ disc.max_repos >= 1)
        => Range(disc.found1) = Range(disc.found2)

\* C18: two local scans of the same directory with the same max_repos
\* return the same set of items when both iterate the children in the same
\* order, or when at most max_repos children qualify.
C18_SameSet ==
    (/\ disc.phase \in {"scanned2", "done"}
     /\ \/ disc.order1 = disc.order2
        \/ Cardinality(disc.qualifies) <= disc.max_repos)
        => Range(disc.found1) = Range(disc.found2)

\* two scans in different orders found the same items, as many as
\* max_repos allows, in a different order
C18_Witness ==
    /\ disc.phase = "scanned2"
    /\ disc.order1 # disc.order2
    /\ disc.max_repos >= 2
    /\ Cardinality(disc.qualifies) = disc.max_repos
    /\ disc.found1 # disc.found2
    /\ Range(disc.found1) = disc.qualifies

\* ------------------------------------------------------------------- C19
\* the count the engine reports for repository i
EngineTotalIssues(i) == Len(EngineFindings(i))

C20_OneCallPerItem ==
    \A i \in Items :
        /\ calls[i] <= 1
        /\ Terminal(i) => calls[i] = 1

\* a batch returned in which a failed item and a successful one each had
\* one adapter call
C20_Witness ==
    /\ OrgReturned
    /\ \E i, j \in Items :
          /\ results[i] = None /\ calls[i] = 1
          /\ results[j] # None /\ calls[j] = 1

\* ------------------------------------------------------------------- C21
\* C21: in the result of a remote organization run with retention the
\* clone-path list holds exactly the successfully cloned items, each once;
\* with retention declined the list is absent and cleanup has been called
\* on exactly those items before the result was returned.
C21_CleanupPaths ==
    OrgReturned =>
        /\ (~is_local /\ keep_clones) =>
              /\ result.cleanup_paths # None
              /\ Range(result.cleanup_paths.paths) = ClonedOk
              /\ Len(result.cleanup_paths.paths) = Cardinality(ClonedOk)
        /\ (~is_local /\ ~keep_clones) =>
              /\ result.cleanup_paths = None
              /\ Len(cleanup_calls) = 1
              /\ Range(cleanup_calls[1]) = ClonedOk

\* a remote run with retention returned the paths of its two good clones,
\* a third clone having failed
C21_Witness ==
    /\ OrgReturned
    /\ ~is_local /\ keep_clones
    /\ result.cleanup_paths # None
    /\ Len(result.cleanup_paths.paths) >= 2
    /\ CloneFailed # {}

\* ------------------------------------------------------------------- C22
\* C22: in a remote organization run no item whose clone failed is handed
\* to the scheduler, and clone failures never make the run fail as a whole,
\* whatever the set of items whose clone failed.
C22_CloneFailureIsolated ==
    (mode = "org" /\ ~is_local /\ clone_results # <<>>) =>
        /\ Range(repo_items) \cap CloneFailed = {}
        /\ pc # "failed"

\* ------------------------------------------------------------------- C23
\* invocations of the callback with a message of `kind` about `about`
Positions(kind, about) ==
    {k \in DOMAIN progress_log :
        progress_log[k].msg = kind /\ progress_log[k].about = about}

\* invocations with the batch-start message of :165
StartPositions ==
    {k \in DOMAIN progress_log : progress_log[k].msg = "starting"}

\* C23: in an organization run with a callback that returns, the
\* batch-start notification is emitted once and before every item's
\* notification; each item's before-item notification is emitted once, not
\* before the item holds its permit and not after its adapter call started;
\* the after-item notification is emitted once after the before-item one,
\* for the items that succeeded and for no other.
C23_ProgressOrder ==
    (mode = "org" /\ progress_callback = "returns") =>
        /\ Cardinality(StartPositions) <= 1
        /\ Scheduled => Cardinality(StartPositions) = 1
        /\ \A i \in Items :
              LET b == Positions("running", repo_items[i])
                  a == Positions("complete", repo_items[i])
              IN  /\ Cardinality(b) <= 1 /\ Cardinality(a) <= 1
                  /\ st[i] \in {"new", "waiting", "granted"} => b = {}
                  /\ (HoldsPermit(i) /\ st[i] # "granted") => b # {}
                  /\ calls[i] > 0 => b # {}
                  /\ Terminal(i) => b # {}
                  /\ \A k \in b : \A s \in StartPositions : s < k
                  /\ a # {} => Terminal(i) /\ results[i] # None
                  /\ \A k \in a : \E l \in b : l < k
                  /\ (Terminal(i) /\ results[i] # None) => a # {}

\* a batch returned in which one item was announced and completed, another
\* was announced and failed, and a third waited for its permit until after
\* the first completion
C23_Witness ==
    /\ SchedulerReturned
    /\ progress_callback = "returns"
    /\ \E i, j, w \in Items :
          /\ Positions("complete", repo_items[i]) # {}
          /\ results[j] = None
          /\ Positions("running", repo_items[j]) # {}
          /\ \E k \in Positions("complete", repo_items[i]) :
                \E l \in Positions("running", repo_items[w]) : k < l

\* ------------------------------------------------------------------- C24
\* an invocation of the callback for item i (before or after its adapter
\* call) raised
RaisedFor(i) ==
    \E k \in DOMAIN progress_log :
        /\ progress_log[k].raised
        /\ progress_log[k].msg \in {"running", "complete"}
        /\ progress_log[k].about = repo_items[i]

\* the step in which the callback raises for item i leaves every sibling
\* and the batch alone
C24_RaiseStep ==
    \A i \in Items :
        (mode = "org" /\ ~RaisedFor(i) /\ RaisedFor(i)') =>
            /\ pc' = pc
            /\ \A j \in Items \ {i} :
                  /\ results'[j] = results[j]
                  /\ err_log'[j] = err_log[j]
                  /\ calls'[j] = calls[j]
                  /\ (st'[j] = "done" <=> st[j] = "done")

\* C24: an item for which the progress callback raised, before or after its
\* adapter call, is terminal with a recorded failure and no outcome, holds
\* no permit, and a raise before the call leaves the adapter uncalled; the
\* permits taken stay those of the tasks holding one; the raising step
\* changes no sibling; and the scheduler still returns a list without that
\* item.
C24_CallbackContained ==
    /\ [](mode = "org" =>
            \A i \in Items :
                RaisedFor(i) =>
                    /\ Terminal(i) /\ ~HoldsPermit(i)
                    /\ results[i] = None /\ err_log[i] = 1
                    /\ SuccessesOf(i) = {}
                    /\ (Positions("complete", repo_items[i]) = {}
                           => calls[i] = 0))
    /\ [](Scheduled =>
            PermitsTaken = Cardinality({i \in Items : HoldsPermit(i)}))
    /\ [][C24_RaiseStep]_vars
    /\ []((mode = "org" /\ pc = "failed" /\ Items # {})
             => cleanup_calls # <<>>)

\* a batch returned a result although the callback raised before one
\* item's adapter call and after another's, a third item having succeeded
C24_Witness ==
    /\ OrgReturned
    /\ \E i, j, k \in Items :
          /\ RaisedFor(i) /\ calls[i] = 0
          /\ RaisedFor(j) /\ calls[j] = 1
          /\ ~RaisedFor(k) /\ results[k] # None
          /\ result.repos_analyzed = 1

\* ------------------------------------------------------------------- C25
\* position of a repository in the input collection
ItemIndex(repo) == CHOOSE i \in DOMAIN repo_items : repo_items[i] = repo

\* C25: the list _parallel_repo_analysis returned holds the outcomes of the
\* successful items in input order, whatever the order in which the adapter
\* calls completed.
C25_InputOrder ==
    SchedulerReturned =>
        /\ \A k, l \in DOMAIN analysis_results :
              k < l => ItemIndex(analysis_results[k].repository)
                         < ItemIndex(analysis_results[l].repository)
        /\ \A k \in DOMAIN analysis_results :
              analysis_results[k]
                 = results[ItemIndex(analysis_results[k].repository)]

\* a later item completed before an earlier one and both are in the
\* returned list
C25_Witness ==
    /\ SchedulerReturned
    /\ Len(analysis_results) >= 2
    /\ \E i, j \in Items :
          /\ i < j
          /\ results[i] # None /\ results[j] # None
          /\ \E k \in Positions("complete", repo_items[j]) :
                \E l \in Positions("complete", repo_items[i]) : k < l

\* ------------------------------------------------------------------- C26
\* C26: no exception leaves run_analysis and a failed run has no result:
\* a run without target fails; with both targets only the single-repository
\* path runs; a single-repository run whose analysis failed fails, it does
\* not return repos_analyzed = 1; a run whose cleanup raised fails.
C26_NeverRaises ==
    /\ pc # "raised"
    /\ pc = "failed" => result = NoResult
    /\ result # NoResult <=> pc = "returned"
    /\ (mode = "none" /\ pc # "init") => pc = "failed"
    /\ mode = "both" =>
          /\ pc \in {"init", "single", "failed", "returned"}
          /\ Len(repo_items) <= 1
          /\ clone_results = <<>> /\ sem_value = 0 /\ cleanup_calls = <<>>
          /\ pc = "returned" => result.type = "single_repo"
    /\ (mode \in {"single", "both"} /\ st = <<"done">> /\ results[1] = None)
          => pc = "failed"
    /\ (cleanup_calls # <<>> /\ pc \notin {"cleanup", "aggregate", "returned"})
          => pc = "failed"

\* the run failed in cleanup after its items had been analysed
C26_Witness ==
    /\ pc = "failed"
    /\ cleanup_calls # <<>>
    /\ analysis_results # <<>>
    /\ result = NoResult

====
